---- MODULE Spec2Model ----
(***************************************************************************)
(* A model of fyg: the manifest document (src/src/toml.rs), its schema     *)
(* types with their serde encodings (src/src/config.rs), the project       *)
(* scaffolder (src/src/lib.rs) and the command surface (src/src/main.rs).  *)
(*                                                                         *)
(* The manifest text is modelled at the level serde sees it: a tree of     *)
(* TOML values (strings, booleans, integers, arrays, tables keyed by the   *)
(* external key names).  An Option<T> of the Rust code is a sequence of    *)
(* length 0 (None) or 1 (Some).                                            *)
(***************************************************************************)
EXTENDS Integers, Sequences, FiniteSets, TLC

VARIABLES
    doc,      \* round trip: the document held by the owner
    edits,    \* round trip: number of in-memory mutations applied to doc
    text,     \* round trip: Option of the result of to_toml_string(doc)
    parsed,   \* round trip: Option of the result of from_str(text)
    src,      \* parsing: the source text handed to from_str
    srcEdits, \* parsing: number of edits applied to the source text
    res,      \* parsing: Option of the result of from_str(src)
    fs,       \* scaffolding: the filesystem
    last,     \* scaffolding: the last operation, its inputs and its result
    prev,     \* scaffolding: the operation before the last one
    calls,    \* scaffolding: number of operations performed
    newArgs   \* round trip: the <<name, group>> given to FygToml::new

vars == <<doc, edits, text, parsed, src, srcEdits, res, fs, last, prev, calls, newArgs>>

rtVars == <<doc, edits, text, parsed, newArgs>>
parseVars == <<src, srcEdits, res>>
fsVars == <<fs, last, prev, calls>>

(***************************************************************************)
(* Option<T>                                                               *)
(***************************************************************************)
None == <<>>
Some(x) == <<x>>
IsSome(o) == o # <<>>

(***************************************************************************)
(* TOML values, as the deserializer presents them to serde.                *)
(***************************************************************************)
Str(s) == [k |-> "str", v |-> s]
Bool(b) == [k |-> "bool", v |-> b]
Integer(n) == [k |-> "int", v |-> n]
Arr(s) == [k |-> "arr", v |-> s]
Tab(f) == [k |-> "tab", v |-> f]
NoKeys == <<>>

(***************************************************************************)
(* Results: anyhow::Result<T>                                              *)
(***************************************************************************)
Ok(x) == [ok |-> TRUE, val |-> x]
Err == [ok |-> FALSE]

(***************************************************************************)
(* External key names, in declaration order (the order a derived visit_seq *)
(* reads the fields in).                                                   *)
(***************************************************************************)
FygTomlFields == <<"project", "build", "targets", "dependencies", "test", "repositories">>
ProjectFields == <<"name", "group", "version", "authors", "description">>
BuildFields == <<"multiplatform", "languages">>
TargetsFields ==
    <<"jvm", "ios-arm64", "ios-x64", "ios-simulator-arm64", "linux-x64",
      "macos-arm64", "windows-x64", "native">>
JvmFields == <<"enabled", "target">>
TargetEnabledFields == <<"enabled">>
NativeFields == <<"binary">>
NativeBinaryFields == <<"type", "base-name">>
DependenciesFields == <<"common", "jvm", "test">>
DependencyConfigFields == <<"path", "workspace", "version">>
TestFields == <<"framework">>
CustomRepositoryFields == <<"type", "url">>

\* FygBinaryType with #[serde(rename_all = "camelCase")]
BinaryTypeName(t) ==
    CASE t = "Executable" -> "executable"
      [] t = "Test" -> "test"
      [] t = "SharedLib" -> "sharedLib"
      [] t = "StaticLib" -> "staticLib"
      [] t = "Framework" -> "framework"
BinaryTypes == {"Executable", "Test", "SharedLib", "StaticLib", "Framework"}

(***************************************************************************)
(* Serialize: the derived Serialize impls as the TOML serializer renders   *)
(* them.  A None field emits no key.                                       *)
(***************************************************************************)
\* mutant: a None string is written as an empty string
SerOptStringAlways(key, o) == key :> Str(IF o = None THEN "" ELSE o[1])
SerOptString(key, o) == IF o = None THEN NoKeys ELSE key :> Str(o[1])
SerOptBool(key, o) == IF o = None THEN NoKeys ELSE key :> Bool(o[1])
SerVecString(xs) == Arr([i \in DOMAIN xs |-> Str(xs[i])])
SerOptVecString(key, o) == IF o = None THEN NoKeys ELSE key :> SerVecString(o[1])

SerProjectConfig(p) ==
    Tab(("name" :> Str(p.name)) @@ ("group" :> Str(p.group)) @@ ("version" :> Str(p.version))
        @@ SerOptVecString("authors", p.authors)
        @@ SerOptString("description", p.description))

SerBuildConfig(b) ==
    Tab(SerOptBool("multiplatform", b.multiplatform) @@ SerOptVecString("languages", b.languages))

SerJvmTarget(j) == Tab(("enabled" :> Bool(j.enabled)) @@ SerOptString("target", j.target))
SerTargetEnabled(t) == Tab("enabled" :> Bool(t.enabled))
SerNativeBinaryConfig(b) ==
    Tab(("type" :> Str(BinaryTypeName(b.binary_type))) @@ SerOptString("base-name", b.base_name))
SerNativeConfig(n) ==
    Tab(IF n.binary = None THEN NoKeys ELSE "binary" :> SerNativeBinaryConfig(n.binary[1]))
SerOptTargetEnabled(key, o) == IF o = None THEN NoKeys ELSE key :> SerTargetEnabled(o[1])

SerTargetsConfig(t) ==
    Tab((IF t.jvm = None THEN NoKeys ELSE "jvm" :> SerJvmTarget(t.jvm[1]))
        @@ SerOptTargetEnabled("ios-arm64", t.ios_arm64)
        @@ SerOptTargetEnabled("ios-x64", t.ios_x64)
        @@ SerOptTargetEnabled("ios-simulator-arm64", t.ios_simulator_arm64)
        @@ SerOptTargetEnabled("linux-x64", t.linux_x64)
        @@ SerOptTargetEnabled("macos-arm64", t.macos_arm64)
        @@ SerOptTargetEnabled("windows-x64", t.windows_x64)
        @@ (IF t.native = None THEN NoKeys ELSE "native" :> SerNativeConfig(t.native[1])))

SerDependencyConfig(c) ==
    Tab(SerOptString("path", c.path) @@ SerOptBool("workspace", c.workspace)
        @@ SerOptString("version", c.version))
\* #[serde(untagged)]: the variant's content is written with no tag
SerDependencyValue(d) ==
    IF d.tag = "Version" THEN Str(d.v) ELSE SerDependencyConfig(d.c)
SerDependencyMap(m) == Tab([n \in DOMAIN m |-> SerDependencyValue(m[n])])
SerOptDependencyMap(key, o) == IF o = None THEN NoKeys ELSE key :> SerDependencyMap(o[1])
SerDependenciesConfig(d) ==
    Tab(SerOptDependencyMap("common", d.common) @@ SerOptDependencyMap("jvm", d.jvm)
        @@ SerOptDependencyMap("test", d.test))

SerTestConfig(t) == Tab(SerOptString("framework", t.framework))

SerCustomRepository(r) == Tab(("type" :> Str(r.repo_type)) @@ ("url" :> Str(r.url)))
SerRepositoryConfig(r) ==
    IF r.tag = "Enabled" THEN Bool(r.v) ELSE SerCustomRepository(r.c)
SerRepositoryMap(m) == Tab([n \in DOMAIN m |-> SerRepositoryConfig(m[n])])

SerFygToml(d) ==
    Tab(("project" :> SerProjectConfig(d.project))
        @@ (IF d.build = None THEN NoKeys ELSE "build" :> SerBuildConfig(d.build[1]))
        @@ (IF d.targets = None THEN NoKeys ELSE "targets" :> SerTargetsConfig(d.targets[1]))
        @@ (IF d.dependencies = None THEN NoKeys
            ELSE "dependencies" :> SerDependenciesConfig(d.dependencies[1]))
        @@ (IF d.test = None THEN NoKeys ELSE "test" :> SerTestConfig(d.test[1]))
        @@ (IF d.repositories = None THEN NoKeys
            ELSE "repositories" :> SerRepositoryMap(d.repositories[1])))

\* FygToml::to_toml_string: toml::to_string_pretty(self)
to_toml_string(d) == Ok(SerFygToml(d))

(***************************************************************************)
(* Deserialize: the derived Deserialize impls.  A derived struct visitor   *)
(* accepts a table (visit_map: fields by key, unknown keys ignored since   *)
(* no struct says deny_unknown_fields) and an array (visit_seq: fields by  *)
(* position).  A field marked #[serde(default)] that is not supplied is    *)
(* Default::default(), which for an Option is None; a field without the    *)
(* attribute that is not supplied is an error.                             *)
(***************************************************************************)
IsStructSource(v) == v.k \in {"tab", "arr"}
Supplied(v, fields, i) ==
    IF v.k = "tab" THEN fields[i] \in DOMAIN v.v ELSE i <= Len(v.v)
Get(v, fields, i) ==
    IF ~Supplied(v, fields, i) THEN Str("")
    ELSE IF v.k = "tab" THEN v.v[fields[i]] ELSE v.v[i]

\* #[serde(default)] on an Option<T>: r is T's result for the supplied value
DefaultOption(supplied, r) ==
    IF ~supplied THEN Ok(None) ELSE IF r.ok THEN Ok(Some(r.val)) ELSE Err
\* a field without #[serde(default)]
Required(supplied, r) == IF ~supplied THEN Err ELSE r
AllOk(rs) == \A i \in DOMAIN rs : rs[i].ok

DeString(v) == IF v.k = "str" THEN Ok(v.v) ELSE Err
DeBool(v) == IF v.k = "bool" THEN Ok(v.v) ELSE Err
DeVecString(v) ==
    IF v.k = "arr" /\ \A i \in DOMAIN v.v : v.v[i].k = "str"
    THEN Ok([i \in DOMAIN v.v |-> v.v[i].v]) ELSE Err

\* mutant: version carries #[serde(default = ...)] with the default of new()
DeProjectConfigDefaultVersion(v) ==
    IF ~IsStructSource(v) THEN Err
    ELSE LET f == ProjectFields
             name == Required(Supplied(v, f, 1), DeString(Get(v, f, 1)))
             group == Required(Supplied(v, f, 2), DeString(Get(v, f, 2)))
             version == IF Supplied(v, f, 3) THEN DeString(Get(v, f, 3))
                        ELSE Ok("1.0.0-SNAPSHOT")
             authors == DefaultOption(Supplied(v, f, 4), DeVecString(Get(v, f, 4)))
             description == DefaultOption(Supplied(v, f, 5), DeString(Get(v, f, 5)))
         IN IF AllOk(<<name, group, version, authors, description>>)
            THEN Ok([name |-> name.val, group |-> group.val, version |-> version.val,
                     authors |-> authors.val, description |-> description.val])
            ELSE Err

DeProjectConfig(v) ==
    IF ~IsStructSource(v) THEN Err
    ELSE LET f == ProjectFields
             name == Required(Supplied(v, f, 1), DeString(Get(v, f, 1)))
             group == Required(Supplied(v, f, 2), DeString(Get(v, f, 2)))
             version == Required(Supplied(v, f, 3), DeString(Get(v, f, 3)))
             authors == DefaultOption(Supplied(v, f, 4), DeVecString(Get(v, f, 4)))
             description == DefaultOption(Supplied(v, f, 5), DeString(Get(v, f, 5)))
         IN IF AllOk(<<name, group, version, authors, description>>)
            THEN Ok([name |-> name.val, group |-> group.val, version |-> version.val,
                     authors |-> authors.val, description |-> description.val])
            ELSE Err

DeBuildConfig(v) ==
    IF ~IsStructSource(v) THEN Err
    ELSE LET f == BuildFields
             multiplatform == DefaultOption(Supplied(v, f, 1), DeBool(Get(v, f, 1)))
             languages == DefaultOption(Supplied(v, f, 2), DeVecString(Get(v, f, 2)))
         IN IF AllOk(<<multiplatform, languages>>)
            THEN Ok([multiplatform |-> multiplatform.val, languages |-> languages.val])
            ELSE Err

DeJvmTarget(v) ==
    IF ~IsStructSource(v) THEN Err
    ELSE LET f == JvmFields
             enabled == Required(Supplied(v, f, 1), DeBool(Get(v, f, 1)))
             target == DefaultOption(Supplied(v, f, 2), DeString(Get(v, f, 2)))
         IN IF AllOk(<<enabled, target>>)
            THEN Ok([enabled |-> enabled.val, target |-> target.val])
            ELSE Err

DeTargetEnabled(v) ==
    IF ~IsStructSource(v) THEN Err
    ELSE LET f == TargetEnabledFields
             enabled == Required(Supplied(v, f, 1), DeBool(Get(v, f, 1)))
         IN IF enabled.ok THEN Ok([enabled |-> enabled.val]) ELSE Err

DeFygBinaryType(v) ==
    IF v.k = "str" /\ \E t \in BinaryTypes : BinaryTypeName(t) = v.v
    THEN Ok(CHOOSE t \in BinaryTypes : BinaryTypeName(t) = v.v) ELSE Err

DeNativeBinaryConfig(v) ==
    IF ~IsStructSource(v) THEN Err
    ELSE LET f == NativeBinaryFields
             binary_type == Required(Supplied(v, f, 1), DeFygBinaryType(Get(v, f, 1)))
             base_name == DefaultOption(Supplied(v, f, 2), DeString(Get(v, f, 2)))
         IN IF AllOk(<<binary_type, base_name>>)
            THEN Ok([binary_type |-> binary_type.val, base_name |-> base_name.val])
            ELSE Err

DeNativeConfig(v) ==
    IF ~IsStructSource(v) THEN Err
    ELSE LET f == NativeFields
             binary == DefaultOption(Supplied(v, f, 1), DeNativeBinaryConfig(Get(v, f, 1)))
         IN IF binary.ok THEN Ok([binary |-> binary.val]) ELSE Err

\* mutant: a slot that is not supplied is a zero-valued TargetEnabled
DeTargetSlotZeroValued(v, i) ==
    IF ~Supplied(v, TargetsFields, i) THEN Ok(Some([enabled |-> FALSE]))
    ELSE DefaultOption(TRUE, DeTargetEnabled(Get(v, TargetsFields, i)))

\* one of the six simple platform slots of TargetsConfig
DeTargetSlot(v, i) ==
    DefaultOption(Supplied(v, TargetsFields, i), DeTargetEnabled(Get(v, TargetsFields, i)))

\* the Visitor derived for TargetsConfig (visit_map and visit_seq)
TargetsConfigVisitor(v) ==
    IF ~IsStructSource(v) THEN Err
    ELSE LET f == TargetsFields
             jvm == DefaultOption(Supplied(v, f, 1), DeJvmTarget(Get(v, f, 1)))
             ios_arm64 == DeTargetSlot(v, 2)
             ios_x64 == DeTargetSlot(v, 3)
             ios_simulator_arm64 == DeTargetSlot(v, 4)
             linux_x64 == DeTargetSlot(v, 5)
             macos_arm64 == DeTargetSlot(v, 6)
             windows_x64 == DeTargetSlot(v, 7)
             native == DefaultOption(Supplied(v, f, 8), DeNativeConfig(Get(v, f, 8)))
         IN IF AllOk(<<jvm, ios_arm64, ios_x64, ios_simulator_arm64, linux_x64,
                       macos_arm64, windows_x64, native>>)
            THEN Ok([jvm |-> jvm.val, ios_arm64 |-> ios_arm64.val, ios_x64 |-> ios_x64.val,
                     ios_simulator_arm64 |-> ios_simulator_arm64.val,
                     linux_x64 |-> linux_x64.val, macos_arm64 |-> macos_arm64.val,
                     windows_x64 |-> windows_x64.val, native |-> native.val])
            ELSE Err

\* mutant: TargetsConfig carries #[serde(deny_unknown_fields)]
DeTargetsConfigDenyUnknown(v) ==
    IF v.k = "tab" /\ \E key \in DOMAIN v.v : \A i \in DOMAIN TargetsFields : TargetsFields[i] # key
    THEN Err ELSE TargetsConfigVisitor(v)

DeTargetsConfig(v) == TargetsConfigVisitor(v)

\* DependencyConfig read from the buffered content of an untagged enum: the
\* buffered sequence must be consumed whole
DeDependencyConfig(v) ==
    IF ~IsStructSource(v) THEN Err
    ELSE IF v.k = "arr" /\ Len(v.v) > Len(DependencyConfigFields) THEN Err
    ELSE LET f == DependencyConfigFields
             path == DefaultOption(Supplied(v, f, 1), DeString(Get(v, f, 1)))
             workspace == DefaultOption(Supplied(v, f, 2), DeBool(Get(v, f, 2)))
             version == DefaultOption(Supplied(v, f, 3), DeString(Get(v, f, 3)))
         IN IF AllOk(<<path, workspace, version>>)
            THEN Ok([path |-> path.val, workspace |-> workspace.val, version |-> version.val])
            ELSE Err

\* #[serde(untagged)]: each variant is tried in declaration order against the
\* buffered value and the first that deserializes wins
DeDependencyValue(v) ==
    LET version == DeString(v)
        complex == DeDependencyConfig(v)
    IN IF version.ok THEN Ok([tag |-> "Version", v |-> version.val])
       ELSE IF complex.ok THEN Ok([tag |-> "Complex", c |-> complex.val])
       ELSE Err

\* HashMap<String, DependencyValue>
DeDependencyMap(v) ==
    IF v.k # "tab" THEN Err
    ELSE IF \A n \in DOMAIN v.v : DeDependencyValue(v.v[n]).ok
    THEN Ok([n \in DOMAIN v.v |-> DeDependencyValue(v.v[n]).val])
    ELSE Err

DeDependencyScope(v, i) ==
    DefaultOption(Supplied(v, DependenciesFields, i),
                  DeDependencyMap(Get(v, DependenciesFields, i)))

DeDependenciesConfig(v) ==
    IF ~IsStructSource(v) THEN Err
    ELSE LET common == DeDependencyScope(v, 1)
             jvm == DeDependencyScope(v, 2)
             test == DeDependencyScope(v, 3)
         IN IF AllOk(<<common, jvm, test>>)
            THEN Ok([common |-> common.val, jvm |-> jvm.val, test |-> test.val])
            ELSE Err

DeTestConfig(v) ==
    IF ~IsStructSource(v) THEN Err
    ELSE LET f == TestFields
             framework == DefaultOption(Supplied(v, f, 1), DeString(Get(v, f, 1)))
         IN IF framework.ok THEN Ok([framework |-> framework.val]) ELSE Err

DeCustomRepository(v) ==
    IF ~IsStructSource(v) THEN Err
    ELSE IF v.k = "arr" /\ Len(v.v) > Len(CustomRepositoryFields) THEN Err
    ELSE LET f == CustomRepositoryFields
             repo_type == Required(Supplied(v, f, 1), DeString(Get(v, f, 1)))
             url == Required(Supplied(v, f, 2), DeString(Get(v, f, 2)))
         IN IF AllOk(<<repo_type, url>>)
            THEN Ok([repo_type |-> repo_type.val, url |-> url.val])
            ELSE Err

DeRepositoryConfig(v) ==
    LET enabled == DeBool(v)
        custom == DeCustomRepository(v)
    IN IF enabled.ok THEN Ok([tag |-> "Enabled", v |-> enabled.val])
       ELSE IF custom.ok THEN Ok([tag |-> "Custom", c |-> custom.val])
       ELSE Err

DeRepositoryMap(v) ==
    IF v.k # "tab" THEN Err
    ELSE IF \A n \in DOMAIN v.v : DeRepositoryConfig(v.v[n]).ok
    THEN Ok([n \in DOMAIN v.v |-> DeRepositoryConfig(v.v[n]).val])
    ELSE Err

DeFygToml(v) ==
    IF ~IsStructSource(v) THEN Err
    ELSE LET f == FygTomlFields
             project == Required(Supplied(v, f, 1), DeProjectConfig(Get(v, f, 1)))
             build == DefaultOption(Supplied(v, f, 2), DeBuildConfig(Get(v, f, 2)))
             targets == DefaultOption(Supplied(v, f, 3), DeTargetsConfig(Get(v, f, 3)))
             dependencies ==
                 DefaultOption(Supplied(v, f, 4), DeDependenciesConfig(Get(v, f, 4)))
             test == DefaultOption(Supplied(v, f, 5), DeTestConfig(Get(v, f, 5)))
             repositories ==
                 DefaultOption(Supplied(v, f, 6), DeRepositoryMap(Get(v, f, 6)))
         IN IF AllOk(<<project, build, targets, dependencies, test, repositories>>)
            THEN Ok([project |-> project.val, build |-> build.val, targets |-> targets.val,
                     dependencies |-> dependencies.val, test |-> test.val,
                     repositories |-> repositories.val])
            ELSE Err

\* FygToml::from_str: toml::from_str(content)
from_str(content) == DeFygToml(content)

\* mutant: new() fills in an empty build section
FygTomlNewWithBuild(name, group) ==
    [project |-> [name |-> name, group |-> group, version |-> "1.0.0-SNAPSHOT",
                  authors |-> None, description |-> None],
     build |-> Some([multiplatform |-> None, languages |-> None]),
     targets |-> None, dependencies |-> None, test |-> None, repositories |-> None]

\* FygToml::new
FygTomlNew(name, group) ==
    [project |-> [name |-> name, group |-> group, version |-> "1.0.0-SNAPSHOT",
                  authors |-> None, description |-> None],
     build |-> None, targets |-> None, dependencies |-> None, test |-> None,
     repositories |-> None]

(***************************************************************************)
(* Bounds                                                                  *)
(***************************************************************************)
MaxEdits == 2
MaxSrcEdits == 2
MaxCalls == 2

(***************************************************************************)
(* The round trip: a document built by FygToml::new and then mutated by    *)
(* its owner through its public fields, serialized and parsed back.        *)
(***************************************************************************)
Names == {"my-app", "x"}
Groups == {"com.example", "org"}

OptStringValues == {None, Some(""), Some("d")}
OptAuthorsValues == {None, Some(<<>>), Some(<<"amy", "bob">>)}
OptBoolValues == {None, Some(TRUE), Some(FALSE)}
OptLanguagesValues == {None, Some(<<>>), Some(<<"kotlin", "java">>)}
BuildValues ==
    {None} \cup {Some([multiplatform |-> m, languages |-> l]) :
                    m \in OptBoolValues, l \in OptLanguagesValues}
EmptyTargets ==
    [jvm |-> None, ios_arm64 |-> None, ios_x64 |-> None, ios_simulator_arm64 |-> None,
     linux_x64 |-> None, macos_arm64 |-> None, windows_x64 |-> None, native |-> None]
JvmValues ==
    {None} \cup {Some([enabled |-> e, target |-> t]) :
                    e \in BOOLEAN, t \in {None, Some("17")}}
TargetEnabledValues == {None, Some([enabled |-> TRUE]), Some([enabled |-> FALSE])}
NativeValues ==
    {None, Some([binary |-> None]),
     Some([binary |-> Some([binary_type |-> "Executable", base_name |-> None])]),
     Some([binary |-> Some([binary_type |-> "SharedLib", base_name |-> Some("core")])])}
SimpleSlots ==
    {"ios_arm64", "ios_x64", "ios_simulator_arm64", "linux_x64", "macos_arm64", "windows_x64"}
EmptyDependencies == [common |-> None, jvm |-> None, test |-> None]
Version(s) == [tag |-> "Version", v |-> s]
Complex(p, w, v) == [tag |-> "Complex", c |-> [path |-> p, workspace |-> w, version |-> v]]
DependencyMapValues ==
    {None, Some(NoKeys),
     Some("a" :> Version("1.2.3")),
     Some(("a" :> Version("1.2.3")) @@ ("b" :> Complex(Some("../lib"), None, None))),
     Some("b" :> Complex(None, None, None)),
     Some("b" :> Complex(None, Some(TRUE), Some("1.0")))}
Scopes == {"common", "jvm", "test"}
TestValues == {None, Some([framework |-> None]), Some([framework |-> Some("junit")])}
Enabled(b) == [tag |-> "Enabled", v |-> b]
Custom(t, u) == [tag |-> "Custom", c |-> [repo_type |-> t, url |-> u]]
RepositoriesValues ==
    {None, Some(NoKeys), Some("central" :> Enabled(TRUE)),
     Some(("central" :> Enabled(FALSE)) @@ ("corp" :> Custom("maven", "https://r")))}

TargetsOf(d) == IF d.targets = None THEN EmptyTargets ELSE d.targets[1]
DependenciesOf(d) == IF d.dependencies = None THEN EmptyDependencies ELSE d.dependencies[1]

\* every document one assignment to a public field away from d
Mutations(d) ==
    {[d EXCEPT !.project.version = "2.0"]}
    \cup {[d EXCEPT !.project.authors = a] : a \in OptAuthorsValues}
    \cup {[d EXCEPT !.project.description = a] : a \in OptStringValues}
    \cup {[d EXCEPT !.build = b] : b \in BuildValues}
    \cup {[d EXCEPT !.targets = t] : t \in {None, Some(EmptyTargets)}}
    \cup {[d EXCEPT !.targets = Some([TargetsOf(d) EXCEPT !.jvm = j])] : j \in JvmValues}
    \cup {[d EXCEPT !.targets = Some([TargetsOf(d) EXCEPT ![s] = e])] :
             s \in SimpleSlots, e \in TargetEnabledValues}
    \cup {[d EXCEPT !.targets = Some([TargetsOf(d) EXCEPT !.native = n])] : n \in NativeValues}
    \cup {[d EXCEPT !.dependencies = x] : x \in {None, Some(EmptyDependencies)}}
    \cup {[d EXCEPT !.dependencies = Some([DependenciesOf(d) EXCEPT ![s] = m])] :
             s \in Scopes, m \in DependencyMapValues}
    \cup {[d EXCEPT !.test = t] : t \in TestValues}
    \cup {[d EXCEPT !.repositories = r] : r \in RepositoriesValues}

RtIdle ==
    /\ src = Tab(NoKeys) /\ srcEdits = 0 /\ res = None
    /\ fs = NoKeys /\ last = None /\ prev = None /\ calls = 0

RtInit ==
    /\ newArgs \in Names \X Groups
    /\ doc = FygTomlNew(newArgs[1], newArgs[2])
    /\ edits = 0
    /\ text = None
    /\ parsed = None
    /\ RtIdle

Mutate ==
    /\ edits < MaxEdits
    /\ text = None
    /\ \E d \in Mutations(doc) : doc' = d
    /\ edits' = edits + 1
    /\ UNCHANGED <<text, parsed, newArgs, parseVars, fsVars>>

Serialize ==
    /\ text = None
    /\ text' = Some(to_toml_string(doc))
    /\ UNCHANGED <<doc, edits, parsed, newArgs, parseVars, fsVars>>

ParseBack ==
    /\ text # None
    /\ text[1].ok
    /\ parsed = None
    /\ parsed' = Some(from_str(text[1].val))
    /\ UNCHANGED <<doc, edits, text, newArgs, parseVars, fsVars>>

RtNext == Mutate \/ Serialize \/ ParseBack
SpecRoundTrip == RtInit /\ [][RtNext]_vars

(***************************************************************************)
(* Claims about the round trip (SpecRoundTrip)                             *)
(***************************************************************************)
OptionalSections == {"build", "targets", "dependencies", "test", "repositories"}

\* C1: round-trip law.  to_toml_string succeeds on every document; the text
\* has a top-level key for an optional section exactly when the section is
\* present in the document; from_str of the text succeeds and yields a
\* document equal to the original in every field.
C1_RoundTrip ==
    /\ text # None =>
          /\ text[1].ok
          /\ \A s \in OptionalSections : (s \in DOMAIN text[1].val.v) <=> IsSome(doc[s])
    /\ parsed # None => parsed[1].ok /\ parsed[1].val = doc

\* C1 witness: a parsed-back document with dependency values and repository
\* declarations of both shapes, absent sections and absent fields
C1_Witness ==
    /\ parsed # None
    /\ doc.build = None /\ doc.test = None /\ doc.project.authors = None
    /\ doc.dependencies # None
    /\ doc.dependencies[1].jvm = None
    /\ doc.dependencies[1].common # None
    /\ \E a, b \in DOMAIN doc.dependencies[1].common[1] :
          /\ doc.dependencies[1].common[1][a].tag = "Version"
          /\ doc.dependencies[1].common[1][b].tag = "Complex"
    /\ doc.repositories # None
    /\ \E a, b \in DOMAIN doc.repositories[1] :
          /\ doc.repositories[1][a].tag = "Enabled"
          /\ doc.repositories[1][b].tag = "Custom"

\* C6: default law.  The document returned by FygToml::new(name, group) has
\* the given name and group, version "1.0.0-SNAPSHOT", no authors, no
\* description and no optional section; its text holds the project table
\* with the three required keys and nothing else.
C6_DefaultLaw ==
    edits = 0 =>
       /\ doc.project.name = newArgs[1]
       /\ doc.project.group = newArgs[2]
       /\ doc.project.version = "1.0.0-SNAPSHOT"
       /\ doc.project.authors = None
       /\ doc.project.description = None
       /\ \A s \in OptionalSections : doc[s] = None
       /\ text # None =>
             /\ DOMAIN text[1].val.v = {"project"}
             /\ DOMAIN text[1].val.v["project"].v = {"name", "group", "version"}

\* C6 witness: a fresh document for "my-app" / "com.example", serialized
C6_Witness ==
    /\ edits = 0
    /\ newArgs = <<"my-app", "com.example">>
    /\ doc.project.name = "my-app"
    /\ text # None

(***************************************************************************)
(* Parsing: a source text, written by hand, handed to FygToml::from_str.   *)
(* The text starts as the text of a fresh document and is edited: a key is *)
(* removed, or a key (with the tables leading to it) is set to a value.    *)
(***************************************************************************)
RECURSIVE SetAt(_, _, _)
SetAt(t, path, val) ==
    IF path = <<>> THEN val
    ELSE LET f == IF t.k = "tab" THEN t.v ELSE NoKeys
             h == Head(path)
             child == IF h \in DOMAIN f THEN f[h] ELSE Tab(NoKeys)
         IN Tab((h :> SetAt(child, Tail(path), val)) @@ f)

RECURSIVE RemoveAt(_, _)
RemoveAt(t, path) ==
    IF t.k # "tab" \/ path = <<>> THEN t
    ELSE IF Head(path) \notin DOMAIN t.v THEN t
    ELSE IF Len(path) = 1 THEN Tab([x \in DOMAIN t.v \ {Head(path)} |-> t.v[x]])
    ELSE Tab((Head(path) :> RemoveAt(t.v[Head(path)], Tail(path))) @@ t.v)

EnabledTable == Tab("enabled" :> Bool(TRUE))
SimpleSlotKeys ==
    {"ios-arm64", "ios-x64", "ios-simulator-arm64", "linux-x64", "macos-arm64", "windows-x64"}
TargetKeys == {TargetsFields[i] : i \in DOMAIN TargetsFields}
\* keys TargetsConfig does not declare
UnknownTargetKeys == {"android", "ios_arm64"}

RemovablePaths ==
    {<<"project">>, <<"project", "name">>, <<"project", "group">>, <<"project", "version">>}

DependencySourceValues ==
    {Str("1.2.3"), Tab("path" :> Str("../lib")), Tab(NoKeys),
     Tab(("workspace" :> Bool(TRUE)) @@ ("version" :> Str("1.0"))),
     Tab("path" :> Integer(1)), Tab("git" :> Str("https://g")),
     Arr(<<>>), Arr(<<Str("../lib")>>), Arr(<<Integer(1)>>), Bool(TRUE), Integer(1)}

SourceEdits ==
    {<<p, v>> : p \in {<<"project", "name">>, <<"project", "version">>},
                v \in {Str("2.0"), Integer(1)}}
    \cup {<<<<"project", "authors">>, v>> : v \in {Arr(<<Str("amy")>>), Str("amy")}}
    \cup {<<<<"project", "description">>, Str("d")>>}
    \cup {<<<<"build">>, v>> : v \in {Tab(NoKeys), Arr(<<>>), Arr(<<Bool(TRUE)>>), Str("x")}}
    \cup {<<<<"build", "multiplatform">>, v>> : v \in {Bool(TRUE), Str("yes")}}
    \cup {<<<<"build", "languages">>, Arr(<<Str("kotlin")>>)>>}
    \cup {<<<<"targets">>, v>> : v \in {Tab(NoKeys), Arr(<<>>)}}
    \cup {<<<<"targets", "jvm">>, v>> :
             v \in {EnabledTable, Tab(("enabled" :> Bool(FALSE)) @@ ("target" :> Str("17")))}}
    \cup {<<<<"targets", s>>, v>> : s \in SimpleSlotKeys, v \in {EnabledTable, Tab(NoKeys)}}
    \cup {<<<<"targets", "native">>, v>> :
             v \in {Tab(NoKeys), Tab("binary" :> Tab("type" :> Str("sharedLib"))),
                    Tab("binary" :> Tab("type" :> Str("SharedLib")))}}
    \cup {<<<<"targets", u>>, v>> : u \in UnknownTargetKeys, v \in {EnabledTable, Str("x")}}
    \cup {<<<<"dependencies">>, Tab(NoKeys)>>}
    \cup {<<<<"dependencies", s>>, Tab(NoKeys)>> : s \in Scopes}
    \cup {<<<<"dependencies", s, "foo">>, v>> : s \in Scopes, v \in DependencySourceValues}
    \cup {<<<<"test">>, Tab(NoKeys)>>}
    \cup {<<<<"test", "framework">>, Str("junit")>>}
    \cup {<<<<"repositories", "central">>, v>> :
             v \in {Bool(TRUE), Str("x"), Tab("type" :> Str("maven")),
                    Tab(("type" :> Str("maven")) @@ ("url" :> Str("https://r")))}}
    \cup {<<<<"extra">>, Str("x")>>}

PsIdle ==
    /\ doc = FygTomlNew("my-app", "com.example") /\ edits = 0 /\ text = None
    /\ parsed = None /\ newArgs = <<"my-app", "com.example">>
    /\ fs = NoKeys /\ last = None /\ prev = None /\ calls = 0

PsInit ==
    /\ src = SerFygToml(FygTomlNew("my-app", "com.example"))
    /\ srcEdits = 0
    /\ res = None
    /\ PsIdle

RemoveKey ==
    /\ srcEdits < MaxSrcEdits
    /\ res = None
    /\ \E p \in RemovablePaths : src' = RemoveAt(src, p)
    /\ src' # src
    /\ srcEdits' = srcEdits + 1
    /\ UNCHANGED <<res, rtVars, fsVars>>

SetKey ==
    /\ srcEdits < MaxSrcEdits
    /\ res = None
    /\ \E e \in SourceEdits : src' = SetAt(src, e[1], e[2])
    /\ srcEdits' = srcEdits + 1
    /\ UNCHANGED <<res, rtVars, fsVars>>

Parse ==
    /\ res = None
    /\ res' = Some(from_str(src))
    /\ UNCHANGED <<src, srcEdits, rtVars, fsVars>>

PsNext == RemoveKey \/ SetKey \/ Parse
SpecParse == PsInit /\ [][PsNext]_vars

(***************************************************************************)
(* Claims about parsing (SpecParse)                                        *)
(***************************************************************************)
Parsed == res # None
ParsedOk == res # None /\ res[1].ok
HasTable(t, key) == t.k = "tab" /\ key \in DOMAIN t.v /\ t.v[key].k = "tab"

RequiredKeys == {"name", "group", "version"}
RequiredMissing ==
    \/ "project" \notin DOMAIN src.v
    \/ /\ HasTable(src, "project")
       /\ \E key \in RequiredKeys : key \notin DOMAIN src.v["project"].v

\* C7: required-field enforcement.  from_str of a text with no project
\* section, or whose project section lacks name, group or version, returns an
\* error (so a missing version is never filled with a default).
C7_RequiredFields == Parsed /\ RequiredMissing => ~res[1].ok

\* C7 witness: a parsed text whose project section has name and group but no
\* version
C7_Witness ==
    /\ Parsed
    /\ HasTable(src, "project")
    /\ DOMAIN src.v["project"].v = {"name", "group"}

\* the dependency entries of the source text: <<scope, name>>
DependencyEntries ==
    IF ~HasTable(src, "dependencies") THEN {}
    ELSE {e \in Scopes \X {"foo"} :
             /\ HasTable(src.v["dependencies"], e[1])
             /\ e[2] \in DOMAIN src.v["dependencies"].v[e[1]].v}
EntrySource(e) == src.v["dependencies"].v[e[1]].v[e[2]]
EntryParsed(e) == res[1].val.dependencies[1][e[1]][1][e[2]]
WellTypedDependencyTable(v) ==
    /\ v.k = "tab"
    /\ "path" \in DOMAIN v.v => v.v["path"].k = "str"
    /\ "workspace" \in DOMAIN v.v => v.v["workspace"].k = "bool"
    /\ "version" \in DOMAIN v.v => v.v["version"].k = "str"
GivenString(v, key) == IF key \in DOMAIN v.v THEN Some(v.v[key].v) ELSE None

\* C8: dependency variant disambiguation.  For every dependency entry of a
\* parsed text: a string value parses to Version with that string, a table
\* with well-typed fields parses to Complex with exactly the given
\* path/workspace/version, and any other value (a list, another scalar, a
\* table with a field of the wrong type) makes the whole parse fail.
C8_VariantDisambiguation ==
    Parsed =>
       \A e \in DependencyEntries :
          LET v == EntrySource(e) IN
          IF v.k = "str" THEN res[1].ok => EntryParsed(e) = Version(v.v)
          ELSE IF WellTypedDependencyTable(v)
          THEN res[1].ok =>
                  EntryParsed(e) = Complex(GivenString(v, "path"),
                                           GivenString(v, "workspace"),
                                           GivenString(v, "version"))
          ELSE ~res[1].ok

UnknownTargetKeysOf(t) ==
    IF HasTable(t, "targets") THEN DOMAIN t.v["targets"].v \ TargetKeys ELSE {}
StripUnknownTargetKeys(t) ==
    IF ~HasTable(t, "targets") THEN t
    ELSE Tab(("targets" :> Tab([key \in DOMAIN t.v["targets"].v \cap TargetKeys |->
                                   t.v["targets"].v[key]])) @@ t.v)

\* C9 as stated: a text whose targets table holds a key other than the eight
\* recognized slots fails to parse.
C9_UnknownTargetKeyRejected ==
    Parsed /\ UnknownTargetKeysOf(src) # {} => ~res[1].ok

\* C9 as amended: keys of the targets table other than the eight recognized
\* slots are ignored: the result of from_str is the result for the same text
\* with those keys removed, whichever recognized slots are also present.
C9_UnknownTargetKeyIgnored ==
    Parsed => res[1] = from_str(StripUnknownTargetKeys(src))

\* C9 witness: a text with an unknown target key beside a recognized slot,
\* parsed successfully with the slot decoded
C9_Witness ==
    /\ ParsedOk
    /\ UnknownTargetKeysOf(src) # {}
    /\ "linux-x64" \in DOMAIN src.v["targets"].v
    /\ res[1].val.targets[1].linux_x64 = Some([enabled |-> TRUE])

\* in-memory field names, in the order of the external key names
FygTomlMembers == <<"project", "build", "targets", "dependencies", "test", "repositories">>
TargetsMembers ==
    <<"jvm", "ios_arm64", "ios_x64", "ios_simulator_arm64", "linux_x64",
      "macos_arm64", "windows_x64", "native">>
BuildMembers == <<"multiplatform", "languages">>

\* the targets source with every key but one removed
OnlyKey(t, key) == Tab([x \in DOMAIN t.v \cap {key} |-> t.v[x]])

\* C10: parsing never injects defaults.  In every successfully parsed
\* document each optional section, each optional field and each target slot
\* is present exactly when the source text supplies it, and each of the six
\* simple platform slots decodes to what it decodes to with the other keys of
\* the targets table removed.
C10_NoDefaultsInjected ==
    ParsedOk =>
       LET d == res[1].val IN
       /\ \A i \in 2..6 : IsSome(d[FygTomlMembers[i]]) <=> Supplied(src, FygTomlFields, i)
       /\ IsSome(d.project.authors) <=> Supplied(src.v["project"], ProjectFields, 4)
       /\ IsSome(d.project.description) <=> Supplied(src.v["project"], ProjectFields, 5)
       /\ IsSome(d.build) =>
             \A i \in 1..2 : IsSome(d.build[1][BuildMembers[i]])
                                <=> Supplied(src.v["build"], BuildFields, i)
       /\ IsSome(d.test) =>
             (IsSome(d.test[1].framework) <=> Supplied(src.v["test"], TestFields, 1))
       /\ IsSome(d.dependencies) =>
             \A i \in 1..3 : IsSome(d.dependencies[1][DependenciesFields[i]])
                                <=> Supplied(src.v["dependencies"], DependenciesFields, i)
       /\ IsSome(d.targets) =>
             LET t == src.v["targets"] IN
             /\ \A i \in 1..8 : IsSome(d.targets[1][TargetsMembers[i]])
                                   <=> Supplied(t, TargetsFields, i)
             /\ IsSome(d.targets[1].jvm) /\ t.k = "tab" =>
                   (IsSome(d.targets[1].jvm[1].target)
                       <=> Supplied(t.v["jvm"], JvmFields, 2))
             /\ IsSome(d.targets[1].native) /\ t.k = "tab" =>
                   (IsSome(d.targets[1].native[1].binary)
                       <=> Supplied(t.v["native"], NativeFields, 1))
             /\ t.k = "tab" =>
                   \A i \in 2..7 :
                      LET alone == DeTargetsConfig(OnlyKey(t, TargetsFields[i])) IN
                      alone.ok /\ alone.val[TargetsMembers[i]] = d.targets[1][TargetsMembers[i]]

\* C10 witness: a parsed text with one simple slot and an empty test section
C10_Witness ==
    /\ ParsedOk
    /\ res[1].val.targets # None
    /\ res[1].val.targets[1].linux_x64 = Some([enabled |-> TRUE])
    /\ res[1].val.targets[1].ios_arm64 = None
    /\ res[1].val.targets[1].jvm = None
    /\ res[1].val.build = None
    /\ res[1].val.test = Some([framework |-> None])

(***************************************************************************)
(* The filesystem.  A path is the sequence of its components from the      *)
(* root; fs maps the paths that exist to a directory or to a file with its *)
(* content.  A manifest file holds a whole text, nothing (created or       *)
(* truncated and not yet written) or a proper prefix of a text.            *)
(***************************************************************************)
Dir == [kind |-> "dir"]
File(c) == [kind |-> "file", content |-> c]
Empty == [k |-> "empty"]
Partial(t) == [k |-> "partial", of |-> t]
Full(t) == [k |-> "full", text |-> t]

Exists(f, p) == p \in DOMAIN f
IsDir(f, p) == p \in DOMAIN f /\ f[p].kind = "dir"
IsFile(f, p) == p \in DOMAIN f /\ f[p].kind = "file"
Parent(p) == SubSeq(p, 1, Len(p) - 1)

\* what goes wrong in the environment during a call: nothing, or the step
\* named by site fails (for a directory tree: creating its component number
\* depth)
NoFault == [site |-> "none"]
FaultAt(site) == [site |-> site]
WriteFault(partial) == [site |-> "write", partial |-> partial]
MkdirFault(depth) == [site |-> "mkdir_src", depth |-> depth]

Outcome(ok, f, at) == [ok |-> ok, fs |-> f, at |-> at]

\* std::fs::create_dir_all(path), from component n on: an existing directory
\* is passed over, an existing file is an error, a missing component is
\* created unless the environment fails that creation
RECURSIVE CreateDirFrom(_, _, _, _)
CreateDirFrom(f, path, n, failDepth) ==
    IF n > Len(path) THEN [ok |-> TRUE, fs |-> f]
    ELSE LET q == SubSeq(path, 1, n) IN
         IF Exists(f, q)
         THEN IF f[q].kind = "dir" THEN CreateDirFrom(f, path, n + 1, failDepth)
              ELSE [ok |-> FALSE, fs |-> f]
         ELSE IF n = failDepth THEN [ok |-> FALSE, fs |-> f]
         ELSE CreateDirFrom((q :> Dir) @@ f, path, n + 1, failDepth)
\* mutant: std::fs::create_dir semantics, an existing directory is an error
create_dir_strict(f, path, failDepth) ==
    IF Exists(f, path) THEN [ok |-> FALSE, fs |-> f]
    ELSE CreateDirFrom(f, path, 1, failDepth)
create_dir_all(f, path, failDepth) == CreateDirFrom(f, path, 1, failDepth)

\* std::fs::write(path, content): File::create (create or truncate), then
\* write_all
FsWrite(f, path, t, fault) ==
    IF ~IsDir(f, Parent(path)) \/ IsDir(f, path) \/ fault.site = "open"
    THEN Outcome(FALSE, f, "open")
    ELSE IF fault.site = "write"
    THEN Outcome(FALSE, (path :> File(IF fault.partial THEN Partial(t) ELSE Empty)) @@ f,
                 "write")
    ELSE Outcome(TRUE, (path :> File(Full(t))) @@ f, "ok")

\* FygToml::write_to_file
write_to_file(f, d, path, fault) ==
    LET content == to_toml_string(d) IN
    IF ~content.ok THEN Outcome(FALSE, f, "serialize")
    ELSE FsWrite(f, path, content.val, fault)

(***************************************************************************)
(* A group is the sequence of its tokens: "." , "/" and the maximal runs   *)
(* of other characters between them.                                       *)
(***************************************************************************)
\* group.replace('.', "/")
ReplaceDots(g) == [i \in DOMAIN g |-> IF g[i] = "." THEN "/" ELSE g[i]]
IsLabel(tok) == tok # "/"
\* PathBuf::join: an absolute argument replaces the path; otherwise its
\* components are appended
Join(path, g) ==
    IF g # <<>> /\ g[1] = "/" THEN SelectSeq(g, IsLabel)
    ELSE path \o SelectSeq(g, IsLabel)

ManifestPath(folder) == folder \o <<"fyg.toml">>
SrcPath(folder, d) == Join(folder \o <<"src", "kotlin">>, ReplaceDots(d.project.group))

\* Fyg::init
FygInit(f, folder, d, fault) ==
    LET w == write_to_file(f, d, ManifestPath(folder), fault) IN
    IF ~w.ok THEN w
    ELSE LET src_path == SrcPath(folder, d)
             m == create_dir_all(w.fs, src_path,
                                 IF fault.site = "mkdir_src"
                                 THEN Len(folder) + fault.depth ELSE 0)
         IN Outcome(m.ok, m.fs, IF m.ok THEN "ok" ELSE "mkdir_src")

\* Fyg::new
FygNew(f, folder_path, d, fault) ==
    LET new_path == folder_path \o <<d.project.name>>
        m == create_dir_all(f, new_path,
                            IF fault.site = "mkdir_project" THEN Len(new_path) ELSE 0)
    IN IF ~m.ok THEN Outcome(FALSE, m.fs, "mkdir_project")
       ELSE FygInit(m.fs, new_path, d, fault)

\* main, Commands::New (without --path: the base is the current directory)
CommandNew(f, current_dir, name, group, fault) ==
    FygNew(f, current_dir, FygTomlNew(name, group), fault)

\* main, Commands::Init: name.unwrap_or_else(|| the current directory's name)
ProjectName(current_dir, name) ==
    IF name # None THEN name[1]
    ELSE IF current_dir # <<>> THEN current_dir[Len(current_dir)]
    ELSE "my-project"

\* main, Commands::Init
CommandInit(f, current_dir, name, group, fault) ==
    LET project_name == ProjectName(current_dir, name)
    IN IF Exists(f, ManifestPath(current_dir))
       THEN Outcome(FALSE, f, "already_initialised")
       ELSE FygInit(f, current_dir, FygTomlNew(project_name, group), fault)

(***************************************************************************)
(* Scaffolding: calls of the library operations and runs of the `new` and  *)
(* `init` commands, one after the other, on one filesystem.                *)
(***************************************************************************)
Home == <<"home">>
FsNames == {"my-app"}
FsGroups == {<<"com", ".", "example">>, <<"org">>}
FsDocs == {FygTomlNew(n, g) : n \in FsNames, g \in FsGroups}
ProjectDirs == {Home} \cup {Home \o <<n>> : n \in FsNames}

BaseFs == (<<>> :> Dir) @@ (Home :> Dir)
\* a manifest its owner has edited by hand
EditedManifest ==
    Full(SerFygToml([FygTomlNew("my-app", <<"com", ".", "example">>) EXCEPT
                        !.project.version = "2.0",
                        !.project.description = Some("d")]))
InitialFilesystems ==
    {BaseFs,
     ((Home \o <<"my-app">>) :> Dir)
        @@ (ManifestPath(Home \o <<"my-app">>) :> File(EditedManifest)) @@ BaseFs,
     ((Home \o <<"src">>) :> File(Empty)) @@ BaseFs}

WriteFaults == {NoFault, FaultAt("open"), WriteFault(TRUE), WriteFault(FALSE)}
InitFaults(folder, d) ==
    WriteFaults \cup {MkdirFault(n) : n \in 1..(Len(SrcPath(folder, d)) - Len(folder))}
NewFaults(folder, d) ==
    {FaultAt("mkdir_project")} \cup InitFaults(folder \o <<d.project.name>>, d)

RtParseIdle ==
    /\ doc = FygTomlNew("my-app", "com.example") /\ edits = 0 /\ text = None
    /\ parsed = None /\ newArgs = <<"my-app", "com.example">>
    /\ src = Tab(NoKeys) /\ srcEdits = 0 /\ res = None

Init ==
    /\ fs \in InitialFilesystems
    /\ last = None
    /\ prev = None
    /\ calls = 0
    /\ RtParseIdle

\* the call is recorded with its inputs, its result and the filesystem it
\* started from; clean is the result in an environment where nothing fails,
\* and a fault is an input only where it changes the result
Record(op, path, d, fault, out, clean) ==
    /\ calls < MaxCalls
    /\ fault = NoFault \/ out # clean
    /\ fs' = out.fs
    /\ last' = Some([op |-> op, path |-> path, doc |-> d, fault |-> fault,
                     ok |-> out.ok, at |-> out.at, before |-> fs])
    /\ prev' = IF last = None THEN None
               ELSE Some([op |-> last[1].op, path |-> last[1].path, doc |-> last[1].doc,
                          ok |-> last[1].ok])
    /\ calls' = calls + 1
    /\ UNCHANGED <<rtVars, parseVars>>

CallWrite ==
    \E folder \in ProjectDirs, d \in FsDocs, fault \in WriteFaults :
       Record("write", folder, d, fault,
              write_to_file(fs, d, ManifestPath(folder), fault),
              write_to_file(fs, d, ManifestPath(folder), NoFault))

CallInit ==
    \E folder \in ProjectDirs, d \in FsDocs :
       \E fault \in InitFaults(folder, d) :
          Record("init", folder, d, fault,
                 FygInit(fs, folder, d, fault), FygInit(fs, folder, d, NoFault))

CallNew ==
    \E d \in FsDocs :
       \E fault \in NewFaults(Home, d) :
          Record("new", Home, d, fault,
                 FygNew(fs, Home, d, fault), FygNew(fs, Home, d, NoFault))

RunNew ==
    \E name \in FsNames, group \in FsGroups :
       \E fault \in NewFaults(Home, FygTomlNew(name, group)) :
          Record("fyg new", Home, FygTomlNew(name, group), fault,
                 CommandNew(fs, Home, name, group, fault),
                 CommandNew(fs, Home, name, group, NoFault))

RunInit ==
    \E current_dir \in {p \in ProjectDirs : IsDir(fs, p)}, group \in FsGroups,
       name \in {None} \cup {Some(n) : n \in FsNames} :
       \E fault \in InitFaults(current_dir, FygTomlNew("my-app", group)) :
          Record("fyg init", current_dir,
                 FygTomlNew(ProjectName(current_dir, name), group), fault,
                 CommandInit(fs, current_dir, name, group, fault),
                 CommandInit(fs, current_dir, name, group, NoFault))

Next == CallWrite \/ CallInit \/ CallNew \/ RunNew \/ RunInit
Spec == Init /\ [][Next]_vars

(***************************************************************************)
(* Claims about scaffolding and writing (Spec)                             *)
(***************************************************************************)
Called == last # None
Scaffolders == {"init", "new", "fyg init", "fyg new"}
\* the manifest file the call writes
Destination(c) ==
    IF c.op \in {"new", "fyg new"} THEN ManifestPath(c.path \o <<c.doc.project.name>>)
    ELSE ManifestPath(c.path)
\* the file at p is as it was before the call (absent, or the same content)
Untouched(c, p) ==
    IF Exists(c.before, p) THEN Exists(fs, p) /\ fs[p] = c.before[p] ELSE ~Exists(fs, p)
HeldValidManifest(f, p) == IsFile(f, p) /\ f[p].content.k = "full"

\* C2: when the creation of the source directory tree fails in Fyg::init
\* (called directly, by Fyg::new or by a command), the call leaves no manifest
\* file it has written: the manifest path is as it was before the call.
C2_NoManifestWhenSourceTreeFails ==
    Called /\ last[1].op \in Scaffolders /\ last[1].at = "mkdir_src"
       => Untouched(last[1], Destination(last[1]))

\* C3: when write_to_file fails (serializing, opening or writing) and the
\* path held a valid manifest before, the path still holds that manifest.
C3_WriteKeepsOldManifestOnFailure ==
    Called /\ last[1].at \in {"serialize", "open", "write"}
           /\ HeldValidManifest(last[1].before, Destination(last[1]))
       => Untouched(last[1], Destination(last[1]))

SameCall(a, b) == a.op = b.op /\ a.path = b.path /\ a.doc = b.doc

\* C4: scaffold idempotence.  When Fyg::new has succeeded and is called again
\* with the same document and base directory, nothing else having touched the
\* filesystem and nothing failing in the environment, the second call
\* succeeds and leaves every file and directory as the first call left it.
C4_ScaffoldIdempotent ==
    /\ Called /\ prev # None
    /\ last[1].op \in {"new", "fyg new"} /\ SameCall(last[1], prev[1])
    /\ prev[1].ok /\ last[1].fault = NoFault
    => last[1].ok /\ fs = last[1].before

\* C4 witness: Fyg::new called twice with the same arguments, the first call
\* having created the project
C4_Witness ==
    /\ Called /\ prev # None
    /\ last[1].op = "new" /\ SameCall(last[1], prev[1])
    /\ prev[1].ok /\ last[1].fault = NoFault
    /\ HeldValidManifest(fs, Destination(last[1]))
    /\ IsDir(fs, SrcPath(Home \o <<"my-app">>, last[1].doc))

\* C5: no operation replaces the content of a manifest file that existed
\* before it and reports success.
C5_NoSilentOverwrite ==
    Called /\ IsFile(last[1].before, Destination(last[1])) /\ last[1].ok
       => Untouched(last[1], Destination(last[1]))

(***************************************************************************)
(* Path derivation: Fyg::init and Fyg::new called with groups of every     *)
(* shape: well-formed ("com.example"), with a leading, a trailing or a     *)
(* doubled dot, and empty.                                                 *)
(***************************************************************************)
PathGroups ==
    {<<"com", ".", "example">>, <<"org">>, <<"a", ".", "b", ".", "c">>,
     <<"com", ".", ".", "example">>, <<"com", ".">>, <<".", "hidden">>, <<>>}

PathInit ==
    \E folder \in ProjectDirs, g \in PathGroups :
       Record("init", folder, FygTomlNew("my-app", g), NoFault,
              FygInit(fs, folder, FygTomlNew("my-app", g), NoFault),
              FygInit(fs, folder, FygTomlNew("my-app", g), NoFault))

PathNew ==
    \E g \in PathGroups :
       Record("new", Home, FygTomlNew("my-app", g), NoFault,
              FygNew(fs, Home, FygTomlNew("my-app", g), NoFault),
              FygNew(fs, Home, FygTomlNew("my-app", g), NoFault))

PathNext == PathInit \/ PathNew
SpecPaths == Init /\ [][PathNext]_vars

(***************************************************************************)
(* Claims about path derivation (SpecPaths)                                *)
(***************************************************************************)
\* the directory Fyg::init is given (Fyg::new hands it folder/<name>)
ProjectDir(c) ==
    IF c.op \in {"new", "fyg new"} THEN c.path \o <<c.doc.project.name>> ELSE c.path
IsNotDot(tok) == tok # "."
\* the non-empty dot-separated components of a group (a group here holds no
\* "/", so each is one label)
DotComponents(g) == SelectSeq(g, IsNotDot)
ExpectedSourceRoot(c) ==
    ProjectDir(c) \o <<"src", "kotlin">> \o DotComponents(c.doc.project.group)
Prefixes(p) == {SubSeq(p, 1, n) : n \in 0..Len(p)}
CreatedDirs(c) == {p \in DOMAIN fs \ DOMAIN c.before : fs[p].kind = "dir"}

\* C11: path derivation.  After a successful Fyg::init (direct or through
\* Fyg::new) with any group, the source root project_dir/src/kotlin/<one
\* segment per dot-separated component of the group> is a directory, and the
\* call has created no directory that is not on the way to it.
C11_PathDerivation ==
    Called /\ last[1].op \in {"init", "new"} /\ last[1].ok
       => /\ IsDir(fs, ExpectedSourceRoot(last[1]))
          /\ CreatedDirs(last[1]) \subseteq Prefixes(ExpectedSourceRoot(last[1]))

\* the groups the spec has in mind: non-empty labels separated by single dots
WellFormedGroup(g) ==
    /\ g # <<>>
    /\ \A i \in DOMAIN g : (g[i] = ".") <=> (i % 2 = 0)
    /\ Len(g) % 2 = 1

\* supporting property: C11 restricted to well-formed groups (it holds; so
\* does the restriction to groups that do not start with a dot)
C11_PathDerivationWellFormed ==
    Called /\ last[1].op \in {"init", "new"} /\ last[1].ok
           /\ WellFormedGroup(last[1].doc.project.group)
       => /\ IsDir(fs, ExpectedSourceRoot(last[1]))
          /\ CreatedDirs(last[1]) \subseteq Prefixes(ExpectedSourceRoot(last[1]))

(***************************************************************************)
(* The placeholder commands: build, clean, run, test (main.rs).  Their     *)
(* arguments (--release, --target, args, filter) only change what is       *)
(* printed and are left out.                                               *)
(***************************************************************************)
\* FygToml::from_file: read_to_string, then from_str.  An empty file is the
\* empty document.  (No file these commands read is torn: the runs below are
\* in an environment where no write fails.)
from_file(f, path) ==
    IF ~IsFile(f, path) THEN Err
    ELSE from_str(IF f[path].content.k = "full" THEN f[path].content.text
                  ELSE Tab(NoKeys))

\* Fyg::build: todo!(), which panics (the process ends with code 101)
FygBuild(f, config_file_path) == Outcome(FALSE, f, "panic")

\* std::fs::remove_dir_all: the directory and everything below it go; a path
\* that is not a directory is an error
IsBelow(p, root) == Len(p) >= Len(root) /\ SubSeq(p, 1, Len(root)) = root
remove_dir_all(f, path) ==
    IF ~IsDir(f, path) THEN [ok |-> FALSE, fs |-> f]
    ELSE [ok |-> TRUE, fs |-> [p \in {q \in DOMAIN f : ~IsBelow(q, path)} |-> f[p]]]

\* main, Commands::Build
CommandBuild(f, current_dir) ==
    LET config_path == ManifestPath(current_dir) IN
    IF ~Exists(f, config_path) THEN Outcome(FALSE, f, "no_manifest")
    ELSE IF ~from_file(f, config_path).ok THEN Outcome(FALSE, f, "load")
    ELSE FygBuild(f, config_path)

\* main, Commands::Clean: the manifest is neither looked for nor loaded
CommandClean(f, current_dir) ==
    LET build_dir == current_dir \o <<"build">> IN
    IF Exists(f, build_dir)
    THEN LET r == remove_dir_all(f, build_dir) IN
         IF r.ok THEN Outcome(TRUE, r.fs, "done") ELSE Outcome(FALSE, r.fs, "remove")
    ELSE Outcome(TRUE, f, "done")

\* main, Commands::Run
CommandRun(f, current_dir) ==
    LET config_path == ManifestPath(current_dir) IN
    IF ~Exists(f, config_path) THEN Outcome(FALSE, f, "no_manifest")
    ELSE IF ~from_file(f, config_path).ok THEN Outcome(FALSE, f, "load")
    ELSE Outcome(TRUE, f, "done")

\* main, Commands::Test
CommandTest(f, current_dir) ==
    LET config_path == ManifestPath(current_dir) IN
    IF ~Exists(f, config_path) THEN Outcome(FALSE, f, "no_manifest")
    ELSE IF ~from_file(f, config_path).ok THEN Outcome(FALSE, f, "load")
    ELSE Outcome(TRUE, f, "done")

\* the directories a command is run in: with no manifest, with a valid one
\* (with and without build output), with an empty one, with one that lacks
\* project.version, and with a directory in the manifest's place
ValidManifest == Full(SerFygToml(FygTomlNew("my-app", <<"com", ".", "example">>)))
MalformedManifest ==
    Full(RemoveAt(SerFygToml(FygTomlNew("my-app", <<"com", ".", "example">>)),
                  <<"project", "version">>))
BuildOutput ==
    ((Home \o <<"build">>) :> Dir) @@ ((Home \o <<"build", "out">>) :> File(Empty))
CommandFilesystems ==
    {BaseFs,
     BuildOutput @@ BaseFs,
     (ManifestPath(Home) :> File(ValidManifest)) @@ BaseFs,
     (ManifestPath(Home) :> File(ValidManifest)) @@ BuildOutput @@ BaseFs,
     (ManifestPath(Home) :> File(Empty)) @@ BaseFs,
     (ManifestPath(Home) :> File(MalformedManifest)) @@ BuildOutput @@ BaseFs,
     (ManifestPath(Home) :> Dir) @@ BaseFs,
     ((Home \o <<"my-app">>) :> Dir)
        @@ (ManifestPath(Home \o <<"my-app">>) :> File(EditedManifest)) @@ BaseFs}

CmdInit ==
    /\ fs \in CommandFilesystems
    /\ last = None
    /\ prev = None
    /\ calls = 0
    /\ RtParseIdle

WorkingDirs == {p \in ProjectDirs : IsDir(fs, p)}
\* a run of a command that is given no document, in an environment where
\* nothing fails
RecordRun(op, current_dir, out) == Record(op, current_dir, None, NoFault, out, out)

RunBuild ==
    \E current_dir \in WorkingDirs :
       RecordRun("fyg build", current_dir, CommandBuild(fs, current_dir))

RunClean ==
    \E current_dir \in WorkingDirs :
       RecordRun("fyg clean", current_dir, CommandClean(fs, current_dir))

RunRun ==
    \E current_dir \in WorkingDirs :
       RecordRun("fyg run", current_dir, CommandRun(fs, current_dir))

RunTest ==
    \E current_dir \in WorkingDirs :
       RecordRun("fyg test", current_dir, CommandTest(fs, current_dir))

\* `fyg init` in a directory, so that the placeholders also run on a project
\* the program itself has set up
RunInitFirst ==
    \E current_dir \in WorkingDirs, group \in FsGroups :
       RecordRun("fyg init", current_dir, CommandInit(fs, current_dir, None, group, NoFault))

CmdNext == RunBuild \/ RunClean \/ RunRun \/ RunTest \/ RunInitFirst
SpecCommands == CmdInit /\ [][CmdNext]_vars

(***************************************************************************)
(* Claims about the placeholder commands (SpecCommands)                    *)
(***************************************************************************)
Placeholders == {"fyg build", "fyg run", "fyg test", "fyg clean"}
\* the directory the command was run in held a manifest that loads
HeldLoadableManifest(c) == from_file(c.before, ManifestPath(c.path)).ok

\* C12: load-and-no-op.  A run of build, run, test or clean in a directory
\* whose fyg.toml loads ends successfully, without a panic, and leaves the
\* filesystem as it was; a run where fyg.toml is missing or does not load
\* ends with a non-zero result.
C12_LoadAndNoOp ==
    Called /\ last[1].op \in Placeholders
       => IF HeldLoadableManifest(last[1])
          THEN last[1].ok /\ last[1].at = "done" /\ fs = last[1].before
          ELSE ~last[1].ok

\* supporting property: C12 restricted to run and test (it holds)
C12_RunAndTestLoadAndNoOp ==
    Called /\ last[1].op \in {"fyg run", "fyg test"}
       => IF HeldLoadableManifest(last[1])
          THEN last[1].ok /\ last[1].at = "done" /\ fs = last[1].before
          ELSE ~last[1].ok

\* supporting property: build never ends successfully, and on a manifest
\* that loads it panics
C12_BuildPanics ==
    Called /\ last[1].op = "fyg build"
       => /\ ~last[1].ok
          /\ HeldLoadableManifest(last[1]) <=> last[1].at = "panic"

\* supporting property: clean succeeds whatever the manifest is, and the only
\* thing it changes is the build directory, which is gone afterwards
C12_CleanIgnoresManifest ==
    Called /\ last[1].op = "fyg clean"
       => /\ last[1].ok
          /\ ~Exists(fs, last[1].path \o <<"build">>)
          /\ \A p \in DOMAIN last[1].before :
                ~IsBelow(p, last[1].path \o <<"build">>)
                   => p \in DOMAIN fs /\ fs[p] = last[1].before[p]

====
